---- MODULE Spec2Model ----
(***************************************************************************)
(* LoanLink server: the Express routes of the server (users, applications, *)
(* Stripe checkout and payment settlement, payment history) over the four  *)
(* MongoDB collections, as a state machine.                                *)
(*                                                                         *)
(* One action per route.  A route whose handler touches storage once is    *)
(* one atomic action (middleware included).  PATCH /payment-success awaits *)
(* the processor and storage four times, so it is modelled as one action   *)
(* per await: other requests interleave between them.                      *)
(*                                                                         *)
(* Values are kept first-order: a missing field (JavaScript undefined) is  *)
(* the string "undefined", a null transaction reference is 0, and          *)
(* new Date() is the token ServerDate.                                     *)
(***************************************************************************)
EXTENDS Integers, Sequences, FiniteSets, TLC

----------------------------------------------------------------------------
(* Bounds of the model *)

\* application ids the storage can issue
MaxApps == 2
\* checkout sessions the processor can hold
MaxSessions == 1
\* PATCH /payment-success requests (each runs once, possibly concurrently)
MaxSettle == 2
\* HTTP requests of one behaviour
MaxRequests == 3
\* loan ids the storage can issue
MaxLoans == 1
\* POST /users requests that can be between findOne and insertOne at once
MaxRegistering == 2

----------------------------------------------------------------------------
(* Value domains *)

Undefined == "undefined"

Emails == {"a@x.com", "b@x.com"}

\* the verified email of a request; Undefined: no or invalid bearer token
Principals == Emails \cup {Undefined}

\* the caller of a route without middleware: the handler never looks at the
\* token, so a request without one stands for all
Anyone == {Undefined}

\* roles a registration or role-update body carries
BodyRoles == {Undefined, "manager", "admin"}

ServerDate == "new Date()"
BodyDate == "body date"

\* today's date as toISOString() prints it, and the outcomes of
\* crypto.randomBytes(3)
IsoNow == <<"2", "0", "2", "6", "-", "1", "1", "-", "0", "1", "T", "0", "9">>
RandomBytes == {<<0, 171, 9>>, <<255, 16, 192>>}

VARIABLES
  usersCollection,         \* sequence of UserAccount documents
  postUsers,               \* newUser of the POST /users requests awaiting insertOne
  loansCollection,         \* function: stored _id -> LoanOffer document
  nextLoanId,              \* the next _id insertOne issues for a LoanOffer
  applicationsCollection,  \* function: stored _id -> Application document
  nextAppId,               \* the next _id insertOne issues for an Application
  paymentCollection,       \* sequence of PaymentRecord documents
  stripeSessions,          \* the processor's sessions, by session id
  settle,                  \* the PATCH /payment-success requests in progress
  settleDone,              \* how many of them have been answered
  res,                     \* the response to the last other request
  requests                 \* HTTP requests received so far

vars == <<usersCollection, postUsers, loansCollection, nextLoanId, applicationsCollection, nextAppId, paymentCollection,
          stripeSessions, settle, settleDone, res, requests>>

\* a well-formed ObjectId that insertOne never issues
UnknownId == MaxApps + 1

\* ids a request or session metadata carries: 0 is a string that is no
\* ObjectId, the others are well-formed: the ids insertOne has issued so far
\* (a client learns an id from the server) and one it never issues
RequestIds == {0} \cup (1..(nextAppId - 1)) \cup {UnknownId}

\* ids a request on a loan route carries
LoanRequestIds == {0} \cup (1..(nextLoanId - 1))

----------------------------------------------------------------------------
(* Pure helpers of the language and of the storage driver *)

Min(S) == CHOOSE x \in S : \A y \in S : x <= y

\* { ...doc, ...fields } and the effect of { $set: fields } on a document
SetFields(doc, fields) ==
  [f \in DOMAIN doc |-> IF f \in DOMAIN fields THEN fields[f] ELSE doc[f]]

\* new ObjectId(id) throws on a string that is no ObjectId
ObjectIdValid(id) == id # 0

\* collection.findOne(filter), hits being the positions of the documents the
\* filter matches: the first of them in natural order, or none
FindOne(coll, hits) == IF hits = {} THEN <<>> ELSE <<coll[Min(hits)]>>

\* a slip of InsertOne: the new document takes the place of the stored ones
InsertOneReplacing(coll, doc) == <<doc>>

\* collection.insertOne(doc) on a collection in natural order
InsertOne(coll, doc) == Append(coll, doc)

\* collection.updateOne({ _id }, { $set: fields }) on a collection keyed by _id
UpdateOneById(coll, id, fields) ==
  IF id \in DOMAIN coll THEN [coll EXCEPT ![id] = SetFields(@, fields)] ELSE coll

\* collection.deleteOne({ _id })
DeleteOneById(coll, id) == [i \in DOMAIN coll \ {id} |-> coll[i]]

\* what an async handler without try/catch answers when it throws: nothing
\* (the request hangs) or the framework's 500, depending on the Express version
UnhandledCodes == {0, 500}

----------------------------------------------------------------------------
(* generateTrackingId *)

HexLower == <<"0", "1", "2", "3", "4", "5", "6", "7",
              "8", "9", "a", "b", "c", "d", "e", "f">>

\* Buffer.toString("hex"): two lower-case digits per byte
RECURSIVE ToHex(_)
ToHex(bytes) ==
  IF bytes = <<>> THEN <<>>
  ELSE <<HexLower[(Head(bytes) \div 16) + 1], HexLower[(Head(bytes) % 16) + 1]>>
       \o ToHex(Tail(bytes))

UpperOf(c) ==
  CASE c = "a" -> "A" [] c = "b" -> "B" [] c = "c" -> "C"
    [] c = "d" -> "D" [] c = "e" -> "E" [] c = "f" -> "F"
    [] OTHER -> c

\* a slip of ToUpperCase: the string is left as Buffer.toString printed it
KeepCase(s) == s

\* String.prototype.toUpperCase
ToUpperCase(s) == [i \in DOMAIN s |-> UpperOf(s[i])]

\* iso.slice(0, 10).replace(/-/g, "")
DateStamp(iso) == SelectSeq(SubSeq(iso, 1, 10), LAMBDA c : c # "-")

generateTrackingId(iso, bytes) ==
  <<"L", "L">> \o <<"-">> \o DateStamp(iso) \o <<"-">> \o ToUpperCase(ToHex(bytes))

NoTrackingId == <<>>

----------------------------------------------------------------------------
(* Documents *)

\* an Application document with every field the routes write, all missing
EmptyApplication ==
  [userEmail |-> Undefined, status |-> Undefined, applicationFeeStatus |-> Undefined,
   appliedAt |-> Undefined, approvedAt |-> Undefined, rejectedAt |-> Undefined,
   cancelledAt |-> Undefined, updatedAt |-> Undefined, paymentStatus |-> Undefined,
   trackingId |-> NoTrackingId, transactionId |-> 0, paidAt |-> Undefined]

\* the emails application and checkout bodies name as the borrower
Borrowers == {"a@x.com"}

\* bodies of POST /applications: the borrower's email, or none, alone or
\* together with fields the server is meant to set itself
ApplicationBodies ==
  {[userEmail |-> e] : e \in Borrowers \cup {Undefined}}
  \cup {[userEmail |-> e, status |-> "Approved", applicationFeeStatus |-> "Paid",
         appliedAt |-> BodyDate] : e \in Borrowers}

\* statuses the body of PATCH /admin/applications/status/:id carries
StatusBodies == {"Approved", "Rejected", "Disbursed"}

\* loanAmount of a checkout body as String(loanAmount) spells it: 50, 50.75,
\* 0, -5, "50abc" and a body without loanAmount
LoanAmounts ==
  { <<"5", "0">>, <<"5", "0", ".", "7", "5">>, <<"0">>, <<"-", "5">>,
    <<"5", "0", "a", "b", "c">>,
    <<"u", "n", "d", "e", "f", "i", "n", "e", "d">> }

NoDocs == <<>>

\* a response: its status, its body (the message, or what the payload is)
\* and the documents it carries; status 0: the request is never answered
Reply(body, code, docs) == [body |-> body, code |-> code, docs |-> docs]

----------------------------------------------------------------------------
(* Middleware *)

\* verifyFirebaseToken: passes exactly the requests with a valid token
verifyFirebaseToken(caller) == caller # Undefined

\* the role stored for an email, Undefined when there is no account
StoredRole(email) ==
  LET found == FindOne(usersCollection,
                       {i \in DOMAIN usersCollection : usersCollection[i].email = email})
  IN  IF found = <<>> THEN Undefined ELSE found[1].role

\* verifyRole(usersCollection, roleName): user?.role === roleName
verifyRole(caller, roleName) == StoredRole(caller) = roleName

\* the status the middleware chain of a role-gated route answers, 0 to pass
RoleGate(caller, roleName) ==
  IF ~verifyFirebaseToken(caller) THEN 401
  ELSE IF ~verifyRole(caller, roleName) THEN 403
  ELSE 0

\* the middleware chain of a route that only verifies the token
TokenGate(caller) == IF ~verifyFirebaseToken(caller) THEN 401 ELSE 0

\* the response of the middleware that refuses a request
Refusal(gate, roleName) ==
  Reply(CASE gate = 401 -> "Unauthorized"
          [] roleName = "admin" -> "Forbidden: admin only"
          [] OTHER -> "Forbidden: manager only",
        gate, NoDocs)

\* the outcome of a handler that throws outside a try block
Unhandled(code) == Reply("unhandled error", code, NoDocs)

----------------------------------------------------------------------------
(* Requests *)

\* a new HTTP request is received
Receive ==
  /\ requests < MaxRequests
  /\ requests' = requests + 1

----------------------------------------------------------------------------
(* User routes *)

\* the document POST /users inserts (name, photoURL, suspendReason and
\* createdAt are carried along and read by no route)
NewUser(email, role) ==
  [email |-> email, role |-> IF role = Undefined THEN "user" ELSE role,
   suspended |-> FALSE]

\* POST /users  { name, email, photoURL, role }, up to
\* await usersCollection.findOne({ email }) and the test of its result; a
\* body without email stands for the bodies the route refuses with 400
PostUsers(email, role) ==
  LET existing == FindOne(usersCollection,
                          {i \in DOMAIN usersCollection : usersCollection[i].email = email})
  IN
  /\ Receive
  /\ IF email = Undefined
       THEN /\ res' = Reply("Name & Email required", 400, NoDocs)
            /\ UNCHANGED postUsers
     ELSE IF existing # <<>>
       THEN /\ res' = Reply("User already exists", 200, NoDocs)
            /\ UNCHANGED postUsers
     ELSE /\ Len(postUsers) < MaxRegistering
          /\ postUsers' = Append(postUsers, NewUser(email, role))
          /\ UNCHANGED res
  /\ UNCHANGED <<usersCollection, loansCollection, nextLoanId, applicationsCollection,
                 nextAppId, paymentCollection, stripeSessions, settle, settleDone>>

\* POST /users, from await usersCollection.insertOne(newUser) to the answer,
\* for the i-th of the requests that await it
PostUsersInsert(i) ==
  /\ i \in DOMAIN postUsers
  /\ usersCollection' = InsertOne(usersCollection, postUsers[i])
  /\ postUsers' = [j \in 1..(Len(postUsers) - 1) |->
                     IF j < i THEN postUsers[j] ELSE postUsers[j + 1]]
  /\ res' = Reply("insertOne result", 201, NoDocs)
  /\ UNCHANGED <<loansCollection, nextLoanId, applicationsCollection, nextAppId,
                 paymentCollection, stripeSessions, settle, settleDone, requests>>

\* usersCollection.updateOne({ email }, { $set: update }): the first match
UpdateOneUser(coll, email, update) ==
  LET hits == {i \in DOMAIN coll : coll[i].email = email}
  IN  IF hits = {} THEN coll
      ELSE [coll EXCEPT ![Min(hits)] = SetFields(@, update)]

\* the update PATCH /admin/users/role/:email builds from its body
RoleUpdate(role, suspend) ==
  CASE role # Undefined /\ suspend # Undefined ->
         [role |-> role, suspended |-> (suspend = "true")]
    [] role # Undefined /\ suspend = Undefined -> [role |-> role]
    [] role = Undefined /\ suspend # Undefined -> [suspended |-> (suspend = "true")]
    [] OTHER -> [none |-> TRUE]

\* PATCH /admin/users/role/:email  { role, suspend, suspendReason }
PatchAdminUsersRole(caller, email, role, suspend) ==
  LET gate == RoleGate(caller, "admin")
  IN
  /\ Receive
  /\ IF gate # 0
       THEN /\ res' = Refusal(gate, "admin")
            /\ UNCHANGED usersCollection
     ELSE /\ usersCollection' =
               UpdateOneUser(usersCollection, email, RoleUpdate(role, suspend))
          /\ res' = Reply("updateOne result", 200, NoDocs)
  /\ UNCHANGED <<postUsers, loansCollection, nextLoanId, applicationsCollection, nextAppId, paymentCollection,
                 stripeSessions, settle, settleDone>>

----------------------------------------------------------------------------
(* Loan routes *)

\* a LoanOffer document with the fields the routes write, all missing
EmptyLoan == [title |-> Undefined, showOnHome |-> Undefined, createdAt |-> Undefined]

\* bodies of POST /loans and of the routes that $set their body
LoanBodies == {[title |-> "Home Loan"]}
LoanUpdates == {[title |-> "Car Loan"]}

\* showOnHome of a request body: absent, or true
ShowOnHomeBodies == {Undefined, "true"}

\* !!showOnHome
NotNot(v) == IF v = Undefined THEN "false" ELSE "true"

\* the document POST /loans inserts: { ...req.body, createdAt: new Date() }
NewLoan(body) == SetFields(SetFields(EmptyLoan, body), [createdAt |-> ServerDate])

\* POST /loans
PostLoans(caller, body) ==
  LET gate == RoleGate(caller, "manager")
  IN
  /\ Receive
  /\ IF gate # 0
       THEN /\ res' = Refusal(gate, "manager")
            /\ UNCHANGED <<loansCollection, nextLoanId>>
     ELSE /\ nextLoanId <= MaxLoans
          /\ loansCollection' = loansCollection @@ (nextLoanId :> NewLoan(body))
          /\ nextLoanId' = nextLoanId + 1
          /\ res' = Reply("insertOne result", 200, NoDocs)
  /\ UNCHANGED <<postUsers, usersCollection, applicationsCollection, nextAppId,
                 paymentCollection, stripeSessions, settle, settleDone>>

\* a manager route that changes one LoanOffer by id, without try/catch:
\* changed is the collection after the change
ManagerLoanRoute(caller, id, changed, body) ==
  LET gate == RoleGate(caller, "manager")
  IN
  /\ Receive
  /\ IF gate # 0
       THEN /\ res' = Refusal(gate, "manager")
            /\ UNCHANGED loansCollection
     ELSE IF ~ObjectIdValid(id)
       THEN /\ \E code \in UnhandledCodes : res' = Unhandled(code)
            /\ UNCHANGED loansCollection
     ELSE /\ loansCollection' = changed
          /\ res' = Reply(body, 200, NoDocs)
  /\ UNCHANGED <<postUsers, usersCollection, nextLoanId, applicationsCollection, nextAppId,
                 paymentCollection, stripeSessions, settle, settleDone>>

\* PATCH /loans/:id  { $set: req.body }
PatchLoans(caller, id, update) ==
  ManagerLoanRoute(caller, id, UpdateOneById(loansCollection, id, update),
                   "updateOne result")

\* DELETE /loans/:id
DeleteLoans(caller, id) ==
  ManagerLoanRoute(caller, id, DeleteOneById(loansCollection, id), "deleteOne result")

\* a route under /admin/loans that changes one LoanOffer by id: no
\* middleware, and a try block that answers 500 with the route's message
AdminLoanRoute(id, changed, body, failure) ==
  /\ Receive
  /\ IF ~ObjectIdValid(id)
       THEN /\ res' = Reply(failure, 500, NoDocs)
            /\ UNCHANGED loansCollection
     ELSE /\ loansCollection' = changed
          /\ res' = Reply(body, 200, NoDocs)
  /\ UNCHANGED <<postUsers, usersCollection, nextLoanId, applicationsCollection, nextAppId,
                 paymentCollection, stripeSessions, settle, settleDone>>

\* PATCH /admin/loans/:id  { $set: req.body }
PatchAdminLoans(caller, id, update) ==
  AdminLoanRoute(id, UpdateOneById(loansCollection, id, update),
                 "updateOne result", "Failed to update loan")

\* DELETE /admin/loans/:id
DeleteAdminLoans(caller, id) ==
  AdminLoanRoute(id, DeleteOneById(loansCollection, id),
                 "deleteOne result", "Failed to delete loan")

\* PATCH /admin/loans/show-home/:id  { showOnHome }
PatchAdminLoansShowHome(caller, id, showOnHome) ==
  AdminLoanRoute(id,
                 UpdateOneById(loansCollection, id, [showOnHome |-> NotNot(showOnHome)]),
                 "updateOne result", "Failed to toggle showOnHome")

----------------------------------------------------------------------------
(* Application routes *)

\* a slip of NewApplication: the body is spread last and overrides the
\* server's fields
NewApplicationBodyLast(body) ==
  SetFields(SetFields(EmptyApplication,
                      [status |-> "Pending", applicationFeeStatus |-> "Unpaid",
                       appliedAt |-> ServerDate]),
            body)

\* the document POST /applications inserts:
\* { ...req.body, status: "Pending", applicationFeeStatus: "Unpaid", appliedAt: new Date() }
NewApplication(body) ==
  SetFields(SetFields(EmptyApplication, body),
            [status |-> "Pending", applicationFeeStatus |-> "Unpaid",
             appliedAt |-> ServerDate])

\* POST /applications
PostApplications(caller, body) ==
  LET gate == TokenGate(caller)
  IN
  /\ Receive
  /\ IF gate # 0
       THEN /\ res' = Refusal(gate, "none")
            /\ UNCHANGED <<applicationsCollection, nextAppId>>
     ELSE /\ nextAppId <= MaxApps
          /\ applicationsCollection' =
               applicationsCollection @@ (nextAppId :> NewApplication(body))
          /\ nextAppId' = nextAppId + 1
          /\ res' = Reply("insertOne result", 200, NoDocs)
  /\ UNCHANGED <<postUsers, loansCollection, nextLoanId, usersCollection, paymentCollection, stripeSessions, settle,
                 settleDone>>

\* a slip of ApproveUpdate: the approval also marks the payment as made
ApproveUpdateWithPaymentStatus ==
  [status |-> "Approved", applicationFeeStatus |-> "Paid", approvedAt |-> ServerDate,
   paymentStatus |-> "Paid"]

\* the $set of PATCH /applications/approve/:id
ApproveUpdate ==
  [status |-> "Approved", applicationFeeStatus |-> "Paid", approvedAt |-> ServerDate]

\* a slip of RejectUpdate: rejecting also takes the fee back
RejectUpdateUnpaid ==
  [status |-> "Rejected", rejectedAt |-> ServerDate, applicationFeeStatus |-> "Unpaid"]

\* the $set of PATCH /applications/reject/:id
RejectUpdate == [status |-> "Rejected", rejectedAt |-> ServerDate]

\* the $set of PATCH /applications/cancel/:id
CancelUpdate == [status |-> "Cancelled", cancelledAt |-> ServerDate]

\* a role-gated route that updates one Application by id, without try/catch
ManagerUpdateRoute(caller, id, update) ==
  LET gate == RoleGate(caller, "manager")
  IN
  /\ Receive
  /\ IF gate # 0
       THEN /\ res' = Refusal(gate, "manager")
            /\ UNCHANGED applicationsCollection
     ELSE IF ~ObjectIdValid(id)
       THEN /\ \E code \in UnhandledCodes : res' = Unhandled(code)
            /\ UNCHANGED applicationsCollection
     ELSE /\ applicationsCollection' = UpdateOneById(applicationsCollection, id, update)
          /\ res' = Reply("updateOne result", 200, NoDocs)
  /\ UNCHANGED <<postUsers, loansCollection, nextLoanId, usersCollection, nextAppId, paymentCollection, stripeSessions,
                 settle, settleDone>>

\* PATCH /applications/approve/:id
PatchApplicationsApprove(caller, id) ==
  ManagerUpdateRoute(caller, id, ApproveUpdate)

\* PATCH /applications/reject/:id
PatchApplicationsReject(caller, id) ==
  ManagerUpdateRoute(caller, id, RejectUpdate)

\* .toArray() of the documents with the given ids, in natural (_id) order
RECURSIVE ToArray(_, _)
ToArray(coll, ids) ==
  IF ids = {} THEN <<>>
  ELSE LET id == Min(ids)
       IN  <<[_id |-> id] @@ coll[id]>> \o ToArray(coll, ids \ {id})

\* applicationsCollection.find({ status }).toArray()
FindByStatus(coll, status) ==
  ToArray(coll, {id \in DOMAIN coll : coll[id].status = status})

\* GET /applications/pending
GetApplicationsPending(caller) ==
  LET gate == RoleGate(caller, "manager")
  IN
  /\ Receive
  /\ IF gate # 0
       THEN res' = Refusal(gate, "manager")
     ELSE res' = Reply("applications", 200,
                       FindByStatus(applicationsCollection, "Pending"))
  /\ UNCHANGED <<postUsers, loansCollection, nextLoanId, usersCollection,
                 applicationsCollection, nextAppId, paymentCollection,
                 stripeSessions, settle, settleDone>>

\* GET /applications/approved
GetApplicationsApproved(caller) ==
  /\ Receive
  /\ res' = Reply("applications", 200,
                  FindByStatus(applicationsCollection, "Approved"))
  /\ UNCHANGED <<postUsers, loansCollection, nextLoanId, usersCollection,
                 applicationsCollection, nextAppId, paymentCollection,
                 stripeSessions, settle, settleDone>>

\* what DELETE /applications/cancel/:id leaves of the collection
CancelDelete(coll, caller, id) == DeleteOneById(coll, id)

\* DELETE /applications/cancel/:id
DeleteApplicationsCancel(caller, id) ==
  LET gate == TokenGate(caller)
  IN
  /\ Receive
  /\ IF gate # 0
       THEN /\ res' = Refusal(gate, "none")
            /\ UNCHANGED applicationsCollection
     ELSE IF ~ObjectIdValid(id)
       THEN /\ \E code \in UnhandledCodes : res' = Unhandled(code)
            /\ UNCHANGED applicationsCollection
     ELSE /\ applicationsCollection' = CancelDelete(applicationsCollection, caller, id)
          /\ res' = Reply("deleteOne result", 200, NoDocs)
  /\ UNCHANGED <<postUsers, loansCollection, nextLoanId, usersCollection, nextAppId, paymentCollection, stripeSessions,
                 settle, settleDone>>

\* PATCH /applications/cancel/:id, the variant of the route that marks the
\* Application instead of deleting it
PatchApplicationsCancel(caller, id) ==
  LET gate == TokenGate(caller)
  IN
  /\ Receive
  /\ IF gate # 0
       THEN /\ res' = Refusal(gate, "none")
            /\ UNCHANGED applicationsCollection
     ELSE IF ~ObjectIdValid(id)
       THEN /\ \E code \in UnhandledCodes : res' = Unhandled(code)
            /\ UNCHANGED applicationsCollection
     ELSE /\ applicationsCollection' =
               UpdateOneById(applicationsCollection, id, CancelUpdate)
          /\ res' = Reply("updateOne result", 200, NoDocs)
  /\ UNCHANGED <<postUsers, loansCollection, nextLoanId, usersCollection, nextAppId, paymentCollection, stripeSessions,
                 settle, settleDone>>

\* a slip of AdminStatusUpdate: the update marks the fee as paid too
AdminStatusUpdateWithFee(status) ==
  [status |-> status, updatedAt |-> ServerDate, applicationFeeStatus |-> "Paid"]

\* the update PATCH /admin/applications/status/:id builds from its body
AdminStatusUpdate(status) ==
  CASE status = "Approved" ->
         [status |-> status, updatedAt |-> ServerDate, approvedAt |-> ServerDate]
    [] status = "Rejected" ->
         [status |-> status, updatedAt |-> ServerDate, rejectedAt |-> ServerDate]
    [] OTHER -> [status |-> status, updatedAt |-> ServerDate]

\* PATCH /admin/applications/status/:id  { status }: no middleware at all
PatchAdminApplicationsStatus(caller, id, status) ==
  /\ Receive
  /\ IF ~ObjectIdValid(id)
       THEN /\ res' = Reply("Failed to update application status", 500, NoDocs)
            /\ UNCHANGED applicationsCollection
     ELSE /\ applicationsCollection' =
               UpdateOneById(applicationsCollection, id, AdminStatusUpdate(status))
          /\ res' = Reply("updateOne result", 200, NoDocs)
  /\ UNCHANGED <<postUsers, loansCollection, nextLoanId, usersCollection, nextAppId, paymentCollection, stripeSessions,
                 settle, settleDone>>

----------------------------------------------------------------------------
(* Stripe checkout *)

LoanTitle == "Home Loan"

Digits == <<"0", "1", "2", "3", "4", "5", "6", "7", "8", "9">>

IsDigit(c) == \E i \in DOMAIN Digits : Digits[i] = c

DigitValue(c) == (CHOOSE i \in DOMAIN Digits : Digits[i] = c) - 1

\* the digits a string starts with
RECURSIVE LeadingDigits(_)
LeadingDigits(s) ==
  IF s = <<>> \/ ~IsDigit(Head(s)) THEN <<>>
  ELSE <<Head(s)>> \o LeadingDigits(Tail(s))

\* the number a string of digits spells
RECURSIVE DigitsValue(_)
DigitsValue(ds) ==
  IF ds = <<>> THEN 0
  ELSE DigitsValue(SubSeq(ds, 1, Len(ds) - 1)) * 10 + DigitValue(ds[Len(ds)])

\* a number is <<n>>, NaN is <<>>
NaN == <<>>

\* parseInt(string): an optional sign and the digits that follow it, the
\* rest of the string ignored; NaN when no digit follows
ParseInt(s) ==
  LET signed == s # <<>> /\ Head(s) \in {"-", "+"}
      ds == LeadingDigits(IF signed THEN Tail(s) ELSE s)
  IN  IF ds = <<>> THEN NaN
      ELSE IF signed /\ Head(s) = "-" THEN <<0 - DigitsValue(ds)>>
      ELSE <<DigitsValue(ds)>>

\* const amount = parseInt(loanAmount) * 100, in minor units
CheckoutAmount(loanAmount) ==
  LET n == ParseInt(loanAmount)
  IN  IF n = NaN THEN NaN ELSE <<n[1] * 100>>

\* the processor creates a session only for a unit_amount that is a
\* positive integer, and throws otherwise
ProcessorAccepts(amount) == amount # NaN /\ amount[1] > 0

\* the session stripe.checkout.sessions.create returns for the route's call:
\* unpaid, and without a payment_intent until the payer confirms
NewSession(loanId, loanAmount, userEmail) ==
  [payment_status |-> "unpaid", payment_intent |-> 0,
   amount_total |-> CheckoutAmount(loanAmount)[1], currency |-> "usd",
   customer_email |-> userEmail,
   metadata |-> [loanId |-> loanId, userEmail |-> userEmail, loanTitle |-> LoanTitle]]

\* POST /payment-checkout-system  { loanId, loanTitle, loanAmount, userEmail }
PostPaymentCheckoutSystem(caller, loanId, loanAmount, userEmail) ==
  LET gate == TokenGate(caller)
  IN
  /\ Receive
  /\ IF gate # 0
       THEN /\ res' = Refusal(gate, "none")
            /\ UNCHANGED stripeSessions
     ELSE IF ~ProcessorAccepts(CheckoutAmount(loanAmount))
       THEN \* stripe.checkout.sessions.create throws: caught, 500
            /\ res' = Reply("Payment session failed", 500, NoDocs)
            /\ UNCHANGED stripeSessions
     ELSE /\ Len(stripeSessions) < MaxSessions
          /\ stripeSessions' =
               Append(stripeSessions, NewSession(loanId, loanAmount, userEmail))
          /\ res' = Reply("session url", 200, NoDocs)
  /\ UNCHANGED <<postUsers, loansCollection, nextLoanId, usersCollection, applicationsCollection, nextAppId,
                 paymentCollection, settle, settleDone>>

\* the payer completes the payment on the processor's page: the session
\* becomes paid and gets its payment_intent, unique to the session
PayAtProcessor(sid) ==
  /\ sid \in DOMAIN stripeSessions
  /\ stripeSessions[sid].payment_status = "unpaid"
  /\ stripeSessions' = [stripeSessions EXCEPT ![sid].payment_status = "paid",
                                              ![sid].payment_intent = sid]
  /\ UNCHANGED <<postUsers, loansCollection, nextLoanId, usersCollection, applicationsCollection, nextAppId,
                 paymentCollection, settle, settleDone, res, requests>>

----------------------------------------------------------------------------
(* PATCH /payment-success?session_id=...  one action per await *)

\* a slip of ExistingPayment: the duplicate check never finds a record
NoDuplicateCheck(coll, transactionId) == <<>>

\* paymentCollection.findOne({ transactionId })
ExistingPayment(coll, transactionId) ==
  FindOne(coll, {i \in DOMAIN coll : coll[i].transactionId = transactionId})

\* a slip of PaymentCompleted: the payment status is not looked at
PaymentAssumedCompleted(session) == TRUE

\* session.payment_status !== "paid" is answered 400
PaymentCompleted(session) == session.payment_status = "paid"

\* a slip of PaymentUpdate: the tracking id is not written
PaymentUpdateWithoutTrackingId(trackingId, transactionId) ==
  [applicationFeeStatus |-> "Paid", paymentStatus |-> "Paid",
   transactionId |-> transactionId, paidAt |-> ServerDate]

\* the $set of the settlement on the Application
PaymentUpdate(trackingId, transactionId) ==
  [applicationFeeStatus |-> "Paid", paymentStatus |-> "Paid",
   trackingId |-> trackingId, transactionId |-> transactionId, paidAt |-> ServerDate]

\* session.amount_total / 100: the amount in major units, with its hundredths
CentsToDollars(cents) == [units |-> cents \div 100, hundredths |-> cents % 100]

\* the PaymentRecord the settlement inserts
PaymentHistory(session, trackingId) ==
  [applicationId |-> session.metadata.loanId,
   loanTitle |-> IF session.metadata.loanTitle = Undefined
                   THEN "Loan Application Fee" ELSE session.metadata.loanTitle,
   amount |-> CentsToDollars(session.amount_total),
   currency |-> session.currency,
   customerEmail |-> session.customer_email,
   transactionId |-> session.payment_intent,
   paymentStatus |-> session.payment_status,
   trackingId |-> trackingId,
   paidAt |-> ServerDate, createdAt |-> ServerDate]

SettleProcs == 1..MaxSettle

IdleSettle ==
  [pc |-> "idle", sessionId |-> 0, session |-> <<>>, trackingId |-> NoTrackingId,
   code |-> 0, resTransactionId |-> 0, resTrackingId |-> NoTrackingId, order |-> 0]

\* the request is answered
Answer(p, code, transactionId, trackingId) ==
  /\ settle' = [settle EXCEPT ![p] = [IdleSettle EXCEPT
                    !.pc = "done", !.sessionId = settle[p].sessionId,
                    !.code = code, !.resTransactionId = transactionId,
                    !.resTrackingId = trackingId, !.order = settleDone + 1]]
  /\ settleDone' = settleDone + 1

\* requests are numbered in the order they arrive
SettleArrives(p) ==
  /\ settle[p].pc = "idle"
  /\ \A q \in 1..(p - 1) : settle[q].pc # "idle"

\* a slip of SessionIdMissing: the session id is not looked at
SessionIdNeverMissing(sid) == FALSE

\* if (!sessionId): the query has no session_id
SessionIdMissing(sid) == sid = 0

\* a slip of RetrieveThrows: an unreachable processor goes unnoticed
RetrieveThrowsOnUnknownOnly(sid, processorUp) == sid \notin DOMAIN stripeSessions

\* stripe.checkout.sessions.retrieve(sessionId) throws: the processor cannot
\* be reached (or times out), or it has no such session
RetrieveThrows(sid, processorUp) == ~processorUp \/ sid \notin DOMAIN stripeSessions

\* the request arrives: session_id check, then
\* await stripe.checkout.sessions.retrieve(sessionId)
SettleRetrieve(p, sid, processorUp) ==
  /\ Receive
  /\ SettleArrives(p)
  /\ IF SessionIdMissing(sid)
       THEN \* session_id missing
            /\ settle' = [settle EXCEPT ![p].pc = "done", ![p].code = 400,
                                        ![p].order = settleDone + 1]
            /\ settleDone' = settleDone + 1
     ELSE IF RetrieveThrows(sid, processorUp)
       THEN \* retrieve throws: caught, 500
            /\ settle' = [settle EXCEPT ![p].pc = "done", ![p].code = 500,
                                        ![p].sessionId = sid,
                                        ![p].order = settleDone + 1]
            /\ settleDone' = settleDone + 1
     ELSE /\ settle' = [settle EXCEPT ![p].pc = "retrieved", ![p].sessionId = sid,
                                      ![p].session = <<stripeSessions[sid]>>]
          /\ UNCHANGED settleDone
  /\ UNCHANGED <<postUsers, loansCollection, nextLoanId, usersCollection, applicationsCollection, nextAppId,
                 paymentCollection, stripeSessions, res>>

\* await paymentCollection.findOne(...), then the duplicate check, the
\* tracking id, the payment status check and new ObjectId(applicationId)
SettleFindPayment(p, bytes) ==
  /\ settle[p].pc = "retrieved"
  /\ LET session == settle[p].session[1]
         transactionId == session.payment_intent
         existingPayment == ExistingPayment(paymentCollection, transactionId)
         trackingId == generateTrackingId(IsoNow, bytes)
     IN  IF existingPayment # <<>>
           THEN Answer(p, 200, transactionId, existingPayment[1].trackingId)
         ELSE IF ~PaymentCompleted(session)
           THEN Answer(p, 400, 0, NoTrackingId)
         ELSE IF ~ObjectIdValid(session.metadata.loanId)
           THEN Answer(p, 500, 0, NoTrackingId)
         ELSE /\ settle' = [settle EXCEPT ![p].pc = "checked",
                                          ![p].trackingId = trackingId]
              /\ UNCHANGED settleDone
  /\ UNCHANGED <<postUsers, loansCollection, nextLoanId, usersCollection, applicationsCollection, nextAppId,
                 paymentCollection, stripeSessions, res, requests>>

\* await applicationsCollection.updateOne(...)
SettleUpdateApplication(p) ==
  /\ settle[p].pc = "checked"
  /\ LET session == settle[p].session[1]
     IN  applicationsCollection' =
           UpdateOneById(applicationsCollection, session.metadata.loanId,
                         PaymentUpdate(settle[p].trackingId, session.payment_intent))
  /\ settle' = [settle EXCEPT ![p].pc = "updated"]
  /\ UNCHANGED <<postUsers, loansCollection, nextLoanId, usersCollection, nextAppId, paymentCollection, stripeSessions,
                 settleDone, res, requests>>

\* await paymentCollection.insertOne(paymentHistory), then the success response
SettleInsertPayment(p) ==
  /\ settle[p].pc = "updated"
  /\ LET session == settle[p].session[1]
     IN  /\ paymentCollection' =
              InsertOne(paymentCollection, PaymentHistory(session, settle[p].trackingId))
         /\ Answer(p, 200, session.payment_intent, settle[p].trackingId)
  /\ UNCHANGED <<postUsers, loansCollection, nextLoanId, usersCollection, applicationsCollection, nextAppId,
                 stripeSessions, res, requests>>

----------------------------------------------------------------------------
(* Payment history *)

\* the documents GET /payments answers with: the caller's filter, or none
PaymentsQuery(coll, email) ==
  IF email = Undefined THEN coll
  ELSE SelectSeq(coll, LAMBDA d : d.customerEmail = email)

\* a slip of EmailMismatch: the filter is never compared with the caller
EmailNeverCompared(caller, email) == FALSE

\* if (email) { if (email !== req.decoded_email) return 403 ... }
EmailMismatch(caller, email) == email # Undefined /\ email # caller

\* GET /payments?email=...
GetPayments(caller, email) ==
  LET gate == TokenGate(caller)
  IN
  /\ Receive
  /\ IF gate # 0
       THEN res' = Refusal(gate, "none")
     ELSE IF EmailMismatch(caller, email)
       THEN res' = Reply("Forbidden access", 403, NoDocs)
     ELSE \* .sort({ paidAt: -1 }): every stored paidAt is ServerDate
          res' = Reply("payments", 200, PaymentsQuery(paymentCollection, email))
  /\ UNCHANGED <<postUsers, loansCollection, nextLoanId, usersCollection, applicationsCollection, nextAppId,
                 paymentCollection, stripeSessions, settle, settleDone>>

----------------------------------------------------------------------------
(* Initial state: the server has connected to its database, either empty   *)
(* or as earlier requests left it (a manager registered by POST /users and *)
(* one application submitted by POST /applications), and the processor     *)
(* holds no session                                                        *)

SeedUsers == <<NewUser("b@x.com", "manager")>>

SeedApplications == 1 :> NewApplication([userEmail |-> "a@x.com"])

Init ==
  /\ postUsers = <<>>
  /\ loansCollection = <<>>
  /\ nextLoanId = 1
  /\ \/ /\ usersCollection = <<>>
        /\ applicationsCollection = <<>>
        /\ nextAppId = 1
     \/ /\ usersCollection = SeedUsers
        /\ applicationsCollection = SeedApplications
        /\ nextAppId = 2
  /\ paymentCollection = <<>>
  /\ stripeSessions = <<>>
  /\ settle = [p \in SettleProcs |-> IdleSettle]
  /\ settleDone = 0
  /\ res = Reply("none", 0, NoDocs)
  /\ requests = 0

----------------------------------------------------------------------------
(* Specifications *)

\* every step but the arrival of a PATCH /payment-success request
OtherSteps ==
  \/ \E e \in Emails \cup {Undefined}, r \in BodyRoles : PostUsers(e, r)
  \/ \E i \in 1..MaxRegistering : PostUsersInsert(i)
  \/ \E c \in Principals, e \in Emails, r \in BodyRoles,
        s \in {Undefined, "true"} : PatchAdminUsersRole(c, e, r, s)
  \/ \E c \in Principals, b \in LoanBodies : PostLoans(c, b)
  \/ \E c \in Principals, id \in LoanRequestIds, u \in LoanUpdates : PatchLoans(c, id, u)
  \/ \E c \in Principals, id \in LoanRequestIds : DeleteLoans(c, id)
  \/ \E c \in Anyone, id \in LoanRequestIds, u \in LoanUpdates :
        PatchAdminLoans(c, id, u)
  \/ \E c \in Anyone, id \in LoanRequestIds : DeleteAdminLoans(c, id)
  \/ \E c \in Anyone, id \in LoanRequestIds, h \in ShowOnHomeBodies :
        PatchAdminLoansShowHome(c, id, h)
  \/ \E c \in Principals, b \in ApplicationBodies : PostApplications(c, b)
  \/ \E c \in Principals : GetApplicationsPending(c)
  \/ \E c \in Anyone : GetApplicationsApproved(c)
  \/ \E c \in Principals, id \in RequestIds : PatchApplicationsApprove(c, id)
  \/ \E c \in Principals, id \in RequestIds : PatchApplicationsReject(c, id)
  \/ \E c \in Principals, id \in RequestIds : DeleteApplicationsCancel(c, id)
  \/ \E c \in Principals, id \in RequestIds : PatchApplicationsCancel(c, id)
  \/ \E c \in Anyone, id \in RequestIds, st \in StatusBodies :
        PatchAdminApplicationsStatus(c, id, st)
  \/ \E c \in Principals, id \in RequestIds, a \in LoanAmounts, e \in Borrowers :
        PostPaymentCheckoutSystem(c, id, a, e)
  \/ \E sid \in 1..MaxSessions : PayAtProcessor(sid)
  \/ \E p \in SettleProcs, bytes \in RandomBytes : SettleFindPayment(p, bytes)
  \/ \E p \in SettleProcs : SettleUpdateApplication(p)
  \/ \E p \in SettleProcs : SettleInsertPayment(p)
  \/ \E c \in Principals, e \in Emails \cup {Undefined} : GetPayments(c, e)

\* requests are served concurrently: a PATCH /payment-success request may
\* arrive while others are between two awaits
Next ==
  \/ OtherSteps
  \/ \E p \in SettleProcs, sid \in 0..MaxSessions, up \in BOOLEAN :
        SettleRetrieve(p, sid, up)

Spec == Init /\ [][Next]_vars

\* no PATCH /payment-success request is between two awaits
SettleQuiet == \A q \in SettleProcs : settle[q].pc \in {"idle", "done"}

\* a PATCH /payment-success request that arrives after the earlier ones
\* were answered
SettleRetrieveSeq(p, sid, processorUp) ==
  /\ SettleQuiet
  /\ SettleRetrieve(p, sid, processorUp)

\* the same server when the PATCH /payment-success requests come one after
\* the other
NextSeq ==
  \/ OtherSteps
  \/ \E p \in SettleProcs, sid \in 0..MaxSessions, up \in BOOLEAN :
        SettleRetrieveSeq(p, sid, up)

SpecSeq == Init /\ [][NextSeq]_vars

-----------------------------------------------------------------------------
(* generateTrackingId over the dates the clock can show and the bytes      *)
(* crypto.randomBytes can give                                             *)

Years == {1970, 2026, 9999}
Months == {1, 12}
Days == {1, 9, 31}
ByteValues == {0, 9, 10, 171, 255}

\* the decimal digits of n, padded with zeros to the given width
RECURSIVE Pad(_, _)
Pad(n, width) ==
  IF width = 0 THEN <<>>
  ELSE Pad(n \div 10, width - 1) \o <<Digits[(n % 10) + 1]>>

\* Date.prototype.toISOString, to the hour: YYYY-MM-DDTHH
ToISOString(year, month, day) ==
  Pad(year, 4) \o <<"-">> \o Pad(month, 2) \o <<"-">> \o Pad(day, 2)
  \o <<"T", "0", "0">>

\* the server with nothing stored, about to call generateTrackingId() on
\* some day, crypto.randomBytes(3) giving some bytes
InitTracking ==
  /\ postUsers = <<>>
  /\ loansCollection = <<>>
  /\ nextLoanId = 1
  /\ usersCollection = <<>>
  /\ applicationsCollection = <<>>
  /\ nextAppId = 1
  /\ paymentCollection = <<>>
  /\ stripeSessions = <<>>
  /\ settle = [p \in SettleProcs |-> IdleSettle]
  /\ settleDone = 0
  /\ \E y \in Years, m \in Months, d \in Days, bytes \in [1..3 -> ByteValues] :
       res = Reply("generateTrackingId", 0,
                   <<[year |-> y, month |-> m, day |-> d, bytes |-> bytes]>>)
  /\ requests = 0

\* the call of generateTrackingId(); the answer names the day of the call
\* and the code produced
GenerateTrackingId ==
  /\ res.body = "generateTrackingId"
  /\ LET call == res.docs[1]
         iso == ToISOString(call.year, call.month, call.day)
     IN  res' = Reply("trackingId", 200,
                      <<[year |-> call.year, month |-> call.month, day |-> call.day,
                         trackingId |-> generateTrackingId(iso, call.bytes)]>>)
  /\ UNCHANGED <<postUsers, loansCollection, nextLoanId, usersCollection,
                 applicationsCollection, nextAppId, paymentCollection,
                 stripeSessions, settle, settleDone, requests>>

NextTracking == GenerateTrackingId

SpecTracking == InitTracking /\ [][NextTracking]_vars

----------------------------------------------------------------------------
(* Claims *)

\* the PaymentRecords of the ledger with a transaction reference
RecordsOf(transactionId) ==
  {i \in DOMAIN paymentCollection : paymentCollection[i].transactionId = transactionId}

\* the stored ids
StoredApps == DOMAIN applicationsCollection

\* C1: when two PATCH /payment-success requests for the same session are
\* served one after the other and the first one reports success, the second
\* one (unless the processor cannot be reached) reports success with the same
\* transactionId and trackingId, and the ledger holds exactly one
\* PaymentRecord for that transaction reference.
C1_SequentialSettleIsIdempotent ==
  \A p, q \in SettleProcs :
    ( /\ settle[p].pc = "done" /\ settle[q].pc = "done"
      /\ settle[p].order < settle[q].order
      /\ settle[p].sessionId # 0
      /\ settle[p].sessionId = settle[q].sessionId
      /\ settle[p].code = 200
      /\ settle[q].code # 500 )
    => /\ settle[q].code = 200
       /\ settle[q].resTransactionId = settle[p].resTransactionId
       /\ settle[q].resTrackingId = settle[p].resTrackingId
       /\ Cardinality(RecordsOf(settle[p].resTransactionId)) = 1

\* C1 witness: two requests for one paid session were answered in turn, both
\* with success and the same tracking id.
C1_Witness ==
  \E p, q \in SettleProcs :
    /\ settle[p].pc = "done" /\ settle[q].pc = "done"
    /\ settle[p].order < settle[q].order
    /\ settle[p].sessionId # 0
    /\ settle[p].sessionId = settle[q].sessionId
    /\ settle[p].code = 200 /\ settle[q].code = 200
    /\ settle[p].resTrackingId # NoTrackingId
    /\ settle[q].resTrackingId = settle[p].resTrackingId

\* C2: the ledger never holds two PaymentRecords with the same transaction
\* reference, however PATCH /payment-success requests interleave.
C2_OneRecordPerTransaction ==
  \A i, j \in DOMAIN paymentCollection :
    paymentCollection[i].transactionId = paymentCollection[j].transactionId => i = j

\* the session a request retrieved is not paid and has no PaymentRecord
UnpaidAndUnrecorded(r) ==
  /\ r.pc = "retrieved"
  /\ r.session[1].payment_status # "paid"
  /\ ExistingPayment(paymentCollection, r.session[1].payment_intent) = <<>>

\* C3: a PATCH /payment-success request whose session the processor reports
\* as not paid, and that has no PaymentRecord yet, is answered 400 and
\* changes neither an Application nor the ledger.
C3_UnpaidSettleFailsWithoutMutation ==
  [][\A p \in SettleProcs :
       /\ (settle[p].pc = "idle" /\ UnpaidAndUnrecorded(settle'[p]))
            => /\ applicationsCollection' = applicationsCollection
               /\ paymentCollection' = paymentCollection
       /\ (UnpaidAndUnrecorded(settle[p]) /\ settle'[p] # settle[p])
            => /\ settle'[p].pc = "done"
               /\ settle'[p].code = 400
               /\ applicationsCollection' = applicationsCollection
               /\ paymentCollection' = paymentCollection]_vars

\* C3 witness: a request for an existing, unpaid session was answered 400.
C3_Witness ==
  \E p \in SettleProcs :
    /\ settle[p].pc = "done"
    /\ settle[p].code = 400
    /\ settle[p].sessionId \in DOMAIN stripeSessions
    /\ stripeSessions[settle[p].sessionId].payment_status = "unpaid"
    /\ paymentCollection = <<>>

\* C4 as stated: every Application with applicationFeeStatus = Paid has
\* transactionId and trackingId set and a status other than Pending.
C4_PaidImpliesSettledAndProgressed ==
  \A id \in StoredApps :
    applicationsCollection[id].applicationFeeStatus = "Paid"
    => /\ applicationsCollection[id].transactionId # 0
       /\ applicationsCollection[id].trackingId # NoTrackingId
       /\ applicationsCollection[id].status # "Pending"

\* C4 as amended: every Application with applicationFeeStatus = Paid was
\* either approved (approvedAt is set) or settled (transactionId, trackingId
\* and paidAt are set); its status may still be Pending.
C4_PaidImpliesApprovedOrSettled ==
  \A id \in StoredApps :
    applicationsCollection[id].applicationFeeStatus = "Paid"
    => \/ applicationsCollection[id].approvedAt # Undefined
       \/ /\ applicationsCollection[id].transactionId # 0
          /\ applicationsCollection[id].trackingId # NoTrackingId
          /\ applicationsCollection[id].paidAt # Undefined

\* C4 witness: a settled Application that nobody approved: Paid, still
\* Pending, with its transaction reference and tracking id.
C4_Witness ==
  \E id \in StoredApps :
    /\ applicationsCollection[id].applicationFeeStatus = "Paid"
    /\ applicationsCollection[id].status = "Pending"
    /\ applicationsCollection[id].approvedAt = Undefined
    /\ applicationsCollection[id].transactionId # 0
    /\ applicationsCollection[id].trackingId # NoTrackingId

\* C5: every Application a request inserts is stored with status Pending,
\* applicationFeeStatus Unpaid and the server's appliedAt, whatever its body.
C5_SubmitStoresPendingUnpaid ==
  [][\A id \in DOMAIN applicationsCollection' \ StoredApps :
       /\ applicationsCollection'[id].status = "Pending"
       /\ applicationsCollection'[id].applicationFeeStatus = "Unpaid"
       /\ applicationsCollection'[id].appliedAt = ServerDate]_vars

\* C5 witness: POST /applications has just stored an Application.
C5_Witness ==
  /\ res.body = "insertOne result"
  /\ res.code = 200
  /\ \E id \in StoredApps :
       /\ id = nextAppId - 1
       /\ applicationsCollection[id].status = "Pending"
       /\ applicationsCollection[id].applicationFeeStatus = "Unpaid"
       /\ applicationsCollection[id].appliedAt = ServerDate

\* C6: once the status of an Application is Approved, Rejected or Cancelled,
\* no step changes it.
C6_TerminalStatusIsFinal ==
  [][\A id \in StoredApps \cap DOMAIN applicationsCollection' :
       applicationsCollection[id].status \in {"Approved", "Rejected", "Cancelled"}
       => applicationsCollection'[id].status = applicationsCollection[id].status]_vars

\* C7: a cancel request of a verified principal who is not the borrower of
\* the Application is answered 403 and leaves the Application as it is.
C7_CancelByOtherIsForbidden ==
  [][\A c \in Emails, id \in StoredApps :
       ( /\ c # applicationsCollection[id].userEmail
         /\ (DeleteApplicationsCancel(c, id) \/ PatchApplicationsCancel(c, id)) )
       => /\ res'.code = 403
          /\ applicationsCollection' = applicationsCollection]_vars

\* C8: no step removes an Application whose applicationFeeStatus is Paid or
\* for which the ledger holds a PaymentRecord.
C8_PaidApplicationIsNeverRemoved ==
  [][\A id \in StoredApps :
       ( \/ applicationsCollection[id].applicationFeeStatus = "Paid"
         \/ \E i \in DOMAIN paymentCollection :
               paymentCollection[i].applicationId = id )
       => id \in DOMAIN applicationsCollection']_vars

\* C9: on every route that sets the status of a stored Application, a
\* request of a principal without the stored role of the route (manager to
\* approve or reject, admin for the admin status update), or without a
\* verified principal, is answered 401 or 403 and leaves every Application
\* as it is.
C9_StatusRoutesRequireRole ==
  [][\A c \in Principals, id \in StoredApps :
       ( \/ /\ StoredRole(c) # "manager"
            /\ (PatchApplicationsApprove(c, id) \/ PatchApplicationsReject(c, id))
         \/ /\ StoredRole(c) # "admin"
            /\ \E st \in StatusBodies : PatchAdminApplicationsStatus(c, id, st) )
       => /\ res'.code \in {401, 403}
          /\ applicationsCollection' = applicationsCollection]_vars

\* C10: GET /payments never answers a caller with a PaymentRecord of another
\* payer, with or without an email filter.
C10_ListPaymentsOnlyOwn ==
  [][\A c \in Emails, e \in Emails \cup {Undefined} :
       GetPayments(c, e)
       => \A i \in DOMAIN res'.docs : res'.docs[i].customerEmail = c]_vars

\* C11: GET /payments by a verified principal with an email filter naming
\* another email is answered 403 with no PaymentRecord, and changes nothing.
C11_ForeignFilterIsForbidden ==
  [][\A c \in Emails, e \in Emails :
       (c # e /\ GetPayments(c, e))
       => /\ res'.code = 403
          /\ res'.docs = NoDocs
          /\ paymentCollection' = paymentCollection]_vars

\* C11 witness: the ledger holds a PaymentRecord and GET /payments was
\* answered 403 without it.
C11_Witness ==
  /\ res.body = "Forbidden access"
  /\ res.code = 403
  /\ res.docs = NoDocs
  /\ paymentCollection # <<>>

\* the digits after the decimal point of a string, if it has one
FractionDigits(s) ==
  LET n == Len(LeadingDigits(s))
  IN  IF Len(s) > n + 1 /\ s[n + 1] = "." THEN SubSeq(s, n + 2, Len(s)) ELSE <<>>

\* the string spells a decimal amount with at most two decimal places
IsDecimal(s) ==
  LET n == Len(LeadingDigits(s))
      frac == FractionDigits(s)
  IN  /\ n > 0
      /\ \/ Len(s) = n
         \/ /\ Len(s) = n + 1 + Len(frac)
            /\ Len(frac) \in 1..2
            /\ \A i \in DOMAIN frac : IsDigit(frac[i])

\* the amount a decimal string spells, in major units with its hundredths
DecimalValue(s) ==
  LET frac == FractionDigits(s)
  IN  [units |-> DigitsValue(LeadingDigits(s)),
       hundredths |-> IF Len(frac) = 1 THEN 10 * DigitsValue(frac)
                      ELSE DigitsValue(frac)]

IsPositiveAmount(s) ==
  IsDecimal(s) /\ DecimalValue(s) # [units |-> 0, hundredths |-> 0]

\* C12: for a loanAmount that is a positive decimal with at most two decimal
\* places, POST /payment-checkout-system creates a session whose amount in
\* minor units, divided by 100 as the settlement does for the PaymentRecord,
\* is the loanAmount again.
C12_AmountRoundTrip ==
  [][\A c \in Emails, id \in RequestIds, a \in LoanAmounts, e \in Borrowers :
       (IsPositiveAmount(a) /\ PostPaymentCheckoutSystem(c, id, a, e))
       => /\ Len(stripeSessions') = Len(stripeSessions) + 1
          /\ CentsToDollars(stripeSessions'[Len(stripeSessions')].amount_total)
               = DecimalValue(a)]_vars

\* C20: POST /payment-checkout-system with a loanAmount that is not a
\* positive number (zero, negative, missing or not numeric) is answered 400
\* and creates no processor session.
C20_NonPositiveAmountIsRefused ==
  [][\A c \in Emails, id \in RequestIds, a \in LoanAmounts, e \in Borrowers :
       (~IsPositiveAmount(a) /\ PostPaymentCheckoutSystem(c, id, a, e))
       => /\ res'.code = 400
          /\ stripeSessions' = stripeSessions]_vars

\* C13: when a PATCH /payment-success request for a paid session without a
\* PaymentRecord reports success, it has inserted one PaymentRecord, and the
\* Application the session metadata names (if it is stored) has
\* applicationFeeStatus and paymentStatus Paid, paidAt set, and the
\* trackingId and transactionId of that record and of the response.
C13_SettleWritesApplicationAndRecord ==
  [][\A p \in SettleProcs :
       ( /\ settle[p].pc = "updated"
         /\ settle'[p].pc = "done"
         /\ settle'[p].code = 200
         /\ RecordsOf(settle[p].session[1].payment_intent) = {} )
       => LET id == settle[p].session[1].metadata.loanId
              rec == paymentCollection'[Len(paymentCollection')]
          IN  /\ Len(paymentCollection') = Len(paymentCollection) + 1
              /\ rec.transactionId = settle'[p].resTransactionId
              /\ rec.trackingId = settle'[p].resTrackingId
              /\ id \in DOMAIN applicationsCollection'
                   => /\ applicationsCollection'[id].applicationFeeStatus = "Paid"
                      /\ applicationsCollection'[id].paymentStatus = "Paid"
                      /\ applicationsCollection'[id].paidAt # Undefined
                      /\ applicationsCollection'[id].trackingId = rec.trackingId
                      /\ applicationsCollection'[id].transactionId = rec.transactionId]_vars

\* the request holds a retrieved session whose transaction reference has a
\* PaymentRecord
RecordedSession(r) ==
  /\ r.pc = "retrieved"
  /\ RecordsOf(r.session[1].payment_intent) # {}

C15_ApproveSetsThreeFieldsOnly ==
  [][\A c \in Emails, id \in StoredApps :
       ( /\ StoredRole(c) = "manager"
         /\ applicationsCollection[id].status = "Pending"
         /\ PatchApplicationsApprove(c, id) )
       => /\ res'.code = 200
          /\ applicationsCollection' =
               [applicationsCollection EXCEPT
                  ![id] = [@ EXCEPT !.status = "Approved",
                                    !.applicationFeeStatus = "Paid",
                                    !.approvedAt = ServerDate]]
          /\ paymentCollection' = paymentCollection]_vars

\* C15 witness: of two stored Applications one was approved, the other is
\* as it was submitted, and the ledger is empty.
C15_Witness ==
  /\ res = Reply("updateOne result", 200, NoDocs)
  /\ paymentCollection = <<>>
  /\ \E id, other \in StoredApps :
       /\ id # other
       /\ applicationsCollection[id] =
            [NewApplication([userEmail |-> "a@x.com"]) EXCEPT
               !.status = "Approved", !.applicationFeeStatus = "Paid",
               !.approvedAt = ServerDate]
       /\ applicationsCollection[other].status = "Pending"
       /\ applicationsCollection[other].applicationFeeStatus = "Unpaid"
       /\ applicationsCollection[other].approvedAt = Undefined

\* C16: a cancel request on a stored Application leaves it stored, with
\* status Cancelled and cancelledAt set.
C16_CancelKeepsTheApplication ==
  [][\A c \in Emails, id \in StoredApps :
       (DeleteApplicationsCancel(c, id) \/ PatchApplicationsCancel(c, id))
       => /\ id \in DOMAIN applicationsCollection'
          /\ applicationsCollection'[id].status = "Cancelled"
          /\ applicationsCollection'[id].cancelledAt # Undefined]_vars

\* C17: a step that changes the applicationFeeStatus of a stored Application
\* is the updateOne of a PATCH /payment-success request or a
\* PATCH /applications/approve request: no submit, reject, cancel, admin
\* status update, loan route or user route changes it.
C17_FeeStatusChangesOnlyBySettleOrApprove ==
  [][(\E id \in StoredApps \cap DOMAIN applicationsCollection' :
        applicationsCollection'[id].applicationFeeStatus
          # applicationsCollection[id].applicationFeeStatus)
     => \/ \E p \in SettleProcs : SettleUpdateApplication(p)
        \/ \E c \in Principals, id \in RequestIds : PatchApplicationsApprove(c, id)]_vars

\* C17 witness: a LoanOffer was created and the admin status update set an
\* Application to Rejected, and its applicationFeeStatus is still Unpaid.
C17_Witness ==
  /\ loansCollection # <<>>
  /\ \E id \in StoredApps :
       /\ applicationsCollection[id].status = "Rejected"
       /\ applicationsCollection[id].updatedAt = ServerDate
       /\ applicationsCollection[id].applicationFeeStatus = "Unpaid"

\* C18: an approve or reject request of a manager, or a cancel request of a
\* verified principal, with a well-formed id that no stored Application has
\* is answered 404 and changes no stored record.
C18_UnknownIdIsNotFound ==
  [][\A c \in Emails, id \in RequestIds \ StoredApps :
       ( /\ ObjectIdValid(id)
         /\ \/ /\ StoredRole(c) = "manager"
               /\ (PatchApplicationsApprove(c, id) \/ PatchApplicationsReject(c, id))
            \/ DeleteApplicationsCancel(c, id)
            \/ PatchApplicationsCancel(c, id) )
       => /\ res'.code = 404
          /\ UNCHANGED <<usersCollection, loansCollection, applicationsCollection,
                         paymentCollection>>]_vars

\* C19: POST /applications with a body that names no borrower email is
\* answered with a validation error (400) and stores no Application.
C19_SubmitWithoutBorrowerIsRefused ==
  [][\A c \in Emails, b \in ApplicationBodies :
       (b.userEmail = Undefined /\ PostApplications(c, b))
       => /\ res'.code = 400
          /\ applicationsCollection' = applicationsCollection]_vars

\* the stored records a PATCH /payment-success request may write
Stored == <<applicationsCollection, paymentCollection>>

\* a step in which the PATCH /payment-success request p arrives
Arrival(p) == settle[p].pc = "idle" /\ settle'[p].pc # "idle"

\* C21: a PATCH /payment-success request without session_id is answered 400
\* at once, whether or not the processor can be reached, and changes neither
\* an Application nor the ledger.
C21_MissingSessionIdIsRefused ==
  [][\A p \in SettleProcs, up \in BOOLEAN :
       (Arrival(p) /\ SettleRetrieve(p, 0, up))
       => /\ settle'[p].pc = "done"
          /\ settle'[p].code = 400
          /\ Stored' = Stored]_vars

\* C21 witness: a request without session_id was answered 400 while the
\* processor holds a paid session that is not settled.
C21_Witness ==
  /\ \E p \in SettleProcs :
       settle[p].pc = "done" /\ settle[p].code = 400 /\ settle[p].sessionId = 0
  /\ \E sid \in DOMAIN stripeSessions : stripeSessions[sid].payment_status = "paid"
  /\ paymentCollection = <<>>

\* C22: a PATCH /payment-success request whose session the processor does
\* not deliver (it cannot be reached, or has no such session) is answered
\* with an error and no ids, and changes neither an Application nor the
\* ledger.
C22_FailedRetrieveIsAnError ==
  [][\A p \in SettleProcs, sid \in 1..MaxSessions :
       ( /\ Arrival(p)
         /\ \/ SettleRetrieve(p, sid, FALSE)
            \/ (sid \notin DOMAIN stripeSessions /\ SettleRetrieve(p, sid, TRUE)) )
       => /\ settle'[p].pc = "done"
          /\ settle'[p].code = 500
          /\ settle'[p].resTransactionId = 0
          /\ settle'[p].resTrackingId = NoTrackingId
          /\ Stored' = Stored]_vars

\* C22 witness: the processor holds a paid session for a stored Application,
\* a request for it was answered 500 because the processor could not be
\* reached, and the Application is still Unpaid and the ledger empty.
C22_Witness ==
  /\ paymentCollection = <<>>
  /\ \E p \in SettleProcs :
       /\ settle[p].pc = "done"
       /\ settle[p].code = 500
       /\ settle[p].sessionId \in DOMAIN stripeSessions
       /\ LET session == stripeSessions[settle[p].sessionId]
          IN  /\ session.payment_status = "paid"
              /\ session.metadata.loanId \in StoredApps
              /\ applicationsCollection[session.metadata.loanId].applicationFeeStatus
                   = "Unpaid"

\* C23: no step changes or removes a PaymentRecord of the ledger: the
\* ledger before a step is the beginning of the ledger after it.
C23_LedgerIsAppendOnly ==
  [][/\ Len(paymentCollection') >= Len(paymentCollection)
     /\ \A i \in DOMAIN paymentCollection :
          paymentCollection'[i] = paymentCollection[i]]_vars

\* C23 witness: the ledger holds the PaymentRecord of an Application that
\* was removed after the settlement.
C23_Witness ==
  \E i \in DOMAIN paymentCollection :
    /\ ObjectIdValid(paymentCollection[i].applicationId)
    /\ paymentCollection[i].applicationId < nextAppId
    /\ paymentCollection[i].applicationId \notin StoredApps
    /\ res = Reply("deleteOne result", 200, NoDocs)

\* C24: usersCollection never holds two UserAccounts with the same email,
\* however POST /users requests interleave.
C24_OneAccountPerEmail ==
  \A i, j \in DOMAIN usersCollection :
    usersCollection[i].email = usersCollection[j].email => i = j

\* the requests on the loan-mutating routes that a caller can make
LoanMutation(c) ==
  \/ \E b \in LoanBodies : PostLoans(c, b)
  \/ \E id \in LoanRequestIds, u \in LoanUpdates :
        PatchLoans(c, id, u) \/ PatchAdminLoans(c, id, u)
  \/ \E id \in LoanRequestIds : DeleteLoans(c, id) \/ DeleteAdminLoans(c, id)
  \/ \E id \in LoanRequestIds, h \in ShowOnHomeBodies :
        PatchAdminLoansShowHome(c, id, h)

\* C25: a request on a loan-mutating route from a caller whose stored role
\* is neither manager nor admin leaves the loan catalog unchanged.
C25_LoanCatalogOnlyByManagerOrAdmin ==
  [][\A c \in Principals :
       (StoredRole(c) \notin {"manager", "admin"} /\ LoanMutation(c))
       => UNCHANGED <<loansCollection, nextLoanId>>]_vars

\* C26: GET /applications/pending and GET /applications/approved hand no
\* Application to a caller whose stored role is neither manager nor admin.
C26_ListsOnlyForManagerOrAdmin ==
  [][\A c \in Principals :
       ( /\ StoredRole(c) \notin {"manager", "admin"}
         /\ (GetApplicationsPending(c) \/ GetApplicationsApproved(c)) )
       => res'.docs = NoDocs]_vars

\* the characters of an upper-case hexadecimal number
UpperHex == {"0", "1", "2", "3", "4", "5", "6", "7", "8", "9",
             "A", "B", "C", "D", "E", "F"}

\* the codes generateTrackingId has answered with
Generated == {i \in DOMAIN res.docs : res.body = "trackingId"}

\* C27: a tracking code is "LL-", the 8 digits YYYYMMDD of the UTC day it
\* was generated on, "-", and exactly 6 upper-case hexadecimal characters.
C27_TrackingIdFormat ==
  \A i \in Generated :
    LET g == res.docs[i]
        t == g.trackingId
    IN  /\ Len(t) = 18
        /\ SubSeq(t, 1, 3) = <<"L", "L", "-">>
        /\ \A k \in 4..11 : IsDigit(t[k])
        /\ DigitsValue(SubSeq(t, 4, 7)) = g.year
        /\ DigitsValue(SubSeq(t, 8, 9)) = g.month
        /\ DigitsValue(SubSeq(t, 10, 11)) = g.day
        /\ t[12] = "-"
        /\ \A k \in 13..18 : t[k] \in UpperHex

\* a code generated on 9 January 1970 from the bytes ab 09 ff
C27_Witness ==
  \E i \in Generated :
    /\ res.docs[i].year = 1970 /\ res.docs[i].month = 1 /\ res.docs[i].day = 9
    /\ SubSeq(res.docs[i].trackingId, 13, 18) = <<"A", "B", "0", "9", "F", "F">>

\* C28: every stored Application with status Approved has
\* applicationFeeStatus Paid, whichever route approved it.
C28_ApprovedImpliesPaid ==
  \A id \in StoredApps :
    applicationsCollection[id].status = "Approved"
    => applicationsCollection[id].applicationFeeStatus = "Paid"

\* C29: the status of every stored Application is Pending, Approved,
\* Rejected or Cancelled.
C29_StatusIsOneOfFour ==
  \A id \in StoredApps :
    applicationsCollection[id].status \in {"Pending", "Approved", "Rejected", "Cancelled"}

\* C30: an Application whose applicationFeeStatus is Paid has it Paid after
\* every step that leaves the Application stored.
C30_FeeStatusIsMonotonic ==
  [][\A id \in StoredApps :
       (applicationsCollection[id].applicationFeeStatus = "Paid"
        /\ id \in DOMAIN applicationsCollection')
       => applicationsCollection'[id].applicationFeeStatus = "Paid"]_vars

\* C30 witness: an Application that was approved (fee Paid) and then
\* rejected, and whose fee is still Paid.
C30_Witness ==
  \E id \in StoredApps :
    /\ applicationsCollection[id].applicationFeeStatus = "Paid"
    /\ applicationsCollection[id].approvedAt # Undefined
    /\ applicationsCollection[id].status = "Rejected"
    /\ applicationsCollection[id].rejectedAt # Undefined
    /\ res = Reply("updateOne result", 200, NoDocs)

\* C31: every PaymentRecord of the ledger names a stored Application whose
\* applicationFeeStatus is Paid.
C31_RecordNamesStoredPaidApplication ==
  \A i \in DOMAIN paymentCollection :
    /\ paymentCollection[i].applicationId \in StoredApps
    /\ applicationsCollection[paymentCollection[i].applicationId].applicationFeeStatus
         = "Paid"

\* the requests a caller can make on the routes behind managerOnly
ManagerRequest(c) ==
  \/ \E id \in RequestIds : PatchApplicationsApprove(c, id) \/ PatchApplicationsReject(c, id)
  \/ GetApplicationsPending(c)
  \/ \E b \in LoanBodies : PostLoans(c, b)
  \/ \E id \in LoanRequestIds, u \in LoanUpdates : PatchLoans(c, id, u)
  \/ \E id \in LoanRequestIds : DeleteLoans(c, id)

\* the request is refused with 403 and nothing stored changes
Refused403 ==
  /\ res'.code = 403
  /\ UNCHANGED <<applicationsCollection, loansCollection, nextLoanId>>

\* C32: the role is read from the stored UserAccount at each request: an
\* Approve, Reject, ListPending or loan mutation by a verified principal
\* whose stored role is not manager (changed away from it, or no
\* UserAccount at all) is refused with 403, and one by a principal whose
\* stored role is manager is not.
C32_RoleIsReadAtEachRequest ==
  [][\A c \in Emails :
       /\ (StoredRole(c) # "manager" /\ (ManagerRequest(c) \/ LoanMutation(c)))
          => Refused403
       /\ (StoredRole(c) = "manager" /\ ManagerRequest(c))
          => res'.code # 403]_vars

\* C33: the role of every stored UserAccount is borrower, manager or admin.
C33_RoleIsOneOfThree ==
  \A i \in DOMAIN usersCollection :
    usersCollection[i].role \in {"borrower", "manager", "admin"}

====
